---- MODULE Spec2Model ----
(***************************************************************************)
(* A model of the PDF spread viewer server (src/server.py): the spread     *)
(* compositor, the contrast analyzer, the tool handlers and the            *)
(* line-delimited JSON-RPC request loop.                                   *)
(*                                                                         *)
(* Python values: None is the string "None"; an exception is the name of   *)
(* its class in a field `raised` ("" when nothing was raised).  A document *)
(* is a sequence of pages; the external libraries (pdf2image, PyMuPDF,     *)
(* PIL, kontrasto) are modelled by what their callers observe.             *)
(***************************************************************************)
EXTENDS Integers, Sequences, FiniteSets, TLC

VARIABLES
    doc,         \* the PDF stored at ExistingPdf: a sequence of pages
    files,       \* files written by save_spread: set of [path, data]
    call,        \* the last operation applied and its arguments
    outcome,     \* what the last operation returned and did
    pos,         \* request loop, per run: number of lines read
    request_id,  \* request loop, per run: main's local variable request_id
    out,         \* request loop, per run: the lines written to stdout
    status,      \* request loop, per run: "running", "crashed" or "eof"
    input        \* request loop, per run: the lines read so far

vars == <<doc, files, call, outcome, pos, request_id, out, status, input>>

loopVars == <<pos, request_id, out, status, input>>

callVars == <<call, outcome>>

----------------------------------------------------------------------------
(* Bounds of the model *)

MaxPages == 3        \* pages of a document
MaxDim == 3          \* width / height of a rasterized page, in pixels
MaxBorder == 3       \* border widths tried by the compositor alone
MaxLines == 3        \* lines read by one run of the request loop
MaxPairLines == 2    \* lines read by each of two runs compared
RatioFloor == 100    \* smallest contrast ratio tried, in hundredths
MaxRatio == 800      \* largest contrast ratio tried, in hundredths

----------------------------------------------------------------------------
(* Python helpers *)

None == "None"

Max(a, b) == IF a >= b THEN a ELSE b

Min(a, b) == IF a <= b THEN a ELSE b

\* int(a / b) for b > 0: truncation towards zero
TruncDiv(a, b) == IF a >= 0 THEN a \div b ELSE -((-a) \div b)

\* params.get(key) is None: the key is absent from the arguments object
IsNone(params, key) == key \in params.absent

\* params.get(key, default) for an integer argument
Get(params, key, default) == IF key \in params.absent THEN default ELSE params[key]

----------------------------------------------------------------------------
(* The file system: one PDF exists, one path names no file *)

ExistingPdf == "a.pdf"

MissingPdf == "missing.pdf"

\* Path(pdf_path).expanduser().exists()
PathExists(path) == path = ExistingPdf

\* a page as the libraries see it: its rasterized size, its text spans, and
\* whether PyMuPDF fails on it
Page(w, h, spans, corrupt) ==
    [width |-> w, height |-> h, spans |-> spans, corrupt |-> corrupt]

----------------------------------------------------------------------------
(* Spread compositor *)

\* dpi of create_spread_image
SpreadDpi(quality) == Max(TruncDiv(200 * quality, 100), 50)

\* pdf2image.convert_from_path: the pages of [first_page, last_page] that
\* exist in the document, in order
convert_from_path(d, first_page, last_page, dpi) ==
    LET lo == Max(first_page, 1)
        hi == Min(last_page, Len(d))
        n  == IF hi >= lo THEN hi - lo + 1 ELSE 0
    IN [i \in 1..n |-> [page   |-> lo + i - 1,
                        width  |-> d[lo + i - 1].width,
                        height |-> d[lo + i - 1].height,
                        dpi    |-> dpi]]

NoImage == <<>>

\* the right image pasted without the centre border
PasteRightNoCentre(outer_border, left_width, border_width) ==
    <<outer_border + left_width, outer_border>>

\* offset at which the right image is pasted
PasteRight(outer_border, left_width, border_width) ==
    <<outer_border + left_width + border_width, outer_border>>

\* create_spread_image: raised is the exception, image the canvas built
\* (NoImage when none), raster the calls made to the rasterizer
create_spread_image(d, left_page, right_page, border_width, quality) ==
    LET dpi   == SpreadDpi(quality)
        pages == convert_from_path(d, left_page, right_page, dpi)
        rcall == <<[first_page |-> left_page, last_page |-> right_page, dpi |-> dpi]>>
    IN IF Len(pages) < 2
       THEN [raised |-> "ValueError",
             message |-> "Could not extract both pages",
             image |-> NoImage, raster |-> rcall]
       ELSE LET left_img      == pages[1]
                right_img     == pages[2]
                max_height    == Max(left_img.height, right_img.height)
                total_width   == left_img.width + border_width + right_img.width
                outer_border  == border_width
                canvas_width  == total_width + (outer_border * 2)
                canvas_height == max_height + (outer_border * 2)
            IN IF canvas_width < 0 \/ canvas_height < 0
               THEN \* Image.new refuses a negative size
                    [raised |-> "ValueError",
                     message |-> "Width and height must be >= 0",
                     image |-> NoImage, raster |-> rcall]
               ELSE [raised |-> "", message |-> "",
                     image |-> <<[canvas_width  |-> canvas_width,
                                  canvas_height |-> canvas_height,
                                  left_img      |-> left_img,
                                  left_at       |-> <<outer_border, outer_border>>,
                                  right_img     |-> right_img,
                                  right_at      |-> PasteRight(outer_border,
                                                       left_img.width, border_width)]>>,
                     raster |-> rcall]

\* _process_spread_params
process_spread_params(d, params) ==
    LET border_width == Get(params, "border_width", 2)
        quality      == Get(params, "quality", 50)
    IN IF params.pdf_path = None \/ IsNone(params, "left_page")
                                 \/ IsNone(params, "right_page")
       THEN [raised |-> "ValueError",
             message |-> "Missing required parameters: pdf_path, left_page, right_page",
             image |-> NoImage, raster |-> <<>>]
       ELSE IF ~PathExists(params.pdf_path)
       THEN [raised |-> "FileNotFoundError",
             message |-> "PDF file not found",
             image |-> NoImage, raster |-> <<>>]
       ELSE create_spread_image(d, params.left_page, params.right_page,
                                border_width, quality)

\* the text item naming the pages of a spread
Caption(left_page, right_page) ==
    [type |-> "text", left_page |-> left_page, right_page |-> right_page]

\* a handler's result {"error": message}
ErrorResult(message) == [error |-> message, content |-> <<>>]

\* a handler's result {"content": [...]}
ContentResult(content) == [error |-> None, content |-> content]

\* what a handler returns and does: its result, the rasterizer calls it
\* made, the files it wrote, and the exception it let escape ("" if none)
Effect(result, raster, writes) ==
    [raised |-> "", result |-> result, raster |-> raster, writes |-> writes,
     analyzed |-> <<>>]

\* a handler failing on arguments that are not an object (no .get)
Escapes == [raised |-> "AttributeError", result |-> ErrorResult(None),
            raster |-> <<>>, writes |-> {}, analyzed |-> <<>>]

\* handle_view_spread
handle_view_spread(d, params) ==
    IF params.shape # "object"
    THEN \* params.get raises inside the try block
         Effect(ErrorResult("object has no attribute 'get'"), <<>>, {})
    ELSE LET p == process_spread_params(d, params)
         IN IF p.raised # ""
            THEN Effect(ErrorResult(p.message), p.raster, {})
            ELSE Effect(ContentResult(<<[type |-> "image", data |-> p.image[1]],
                                        Caption(params.left_page, params.right_page)>>),
                        p.raster, {})

\* handle_save_spread
handle_save_spread(d, params) ==
    IF params.shape # "object"
    THEN \* params.get("output_path") is outside the try block
         Escapes
    ELSE IF params.output_path = None
    THEN Effect(ErrorResult("Missing required parameter: output_path"), <<>>, {})
    ELSE LET p == process_spread_params(d, params)
         IN IF p.raised # ""
            THEN Effect(ErrorResult(p.message), p.raster, {})
            ELSE Effect(ContentResult(<<Caption(params.left_page, params.right_page)>>),
                        p.raster,
                        {[path |-> params.output_path, data |-> p.image[1]]})

\* output_file.write_bytes: the files after a handler's writes
WriteFiles(fs, writes) ==
    {f \in fs : \A w \in writes : w.path # f.path} \cup writes

----------------------------------------------------------------------------
(* Contrast analyzer *)

\* a text span of a page: skip stands for the conditions under which the
\* analyzer passes over it (blank text, no usable bounding box, a crop
\* smaller than 2 pixels); ratio is what wcag2_contrast gives for its text
\* and background colours, in hundredths
Span(skip, ratio) == [skip |-> skip, ratio |-> ratio]

\* dpi of analyze_page_contrast
AnalyzerDpi(quality) == Max(TruncDiv(200 * quality, 100), 72)

\* the flags with the bounds taken as strict
WcagComplianceStrict(contrast_ratio) ==
    [aa_normal_text  |-> contrast_ratio > 450,
     aa_large_text   |-> contrast_ratio > 300,
     aaa_normal_text |-> contrast_ratio > 700,
     aaa_large_text  |-> contrast_ratio > 450]

\* wcag_compliance of a region, the ratio in hundredths
WcagCompliance(contrast_ratio) ==
    [aa_normal_text  |-> contrast_ratio >= 450,
     aa_large_text   |-> contrast_ratio >= 300,
     aaa_normal_text |-> contrast_ratio >= 700,
     aaa_large_text  |-> contrast_ratio >= 450]

\* the regions of a page: its spans that are not passed over, numbered
\* from 1 in document order
Regions(spans) ==
    LET kept == SelectSeq(spans, LAMBDA s : ~s.skip)
    IN [i \in 1..Len(kept) |->
            [region_index    |-> i,
             contrast_ratio  |-> kept[i].ratio,
             wcag_compliance |-> WcagCompliance(kept[i].ratio)]]

\* the entry of results["pages"] for one page
PageAnalysis(d, page_number, dpi) ==
    LET regions == Regions(d[page_number].spans)
    IN [page_number      |-> page_number,
        width            |-> d[page_number].width,
        height           |-> d[page_number].height,
        dpi              |-> dpi,
        regions_analyzed |-> Len(regions),
        regions          |-> regions]

\* the range check refusing the last page of the document
OutsideDocumentOffByOne(left_page, right_page, num_pages) ==
    left_page < 1 \/ right_page >= num_pages

\* the range check made once the document is open
OutsideDocument(left_page, right_page, num_pages) ==
    left_page < 1 \/ right_page > num_pages

\* analyze_page_contrast: raised is the exception, pages the value of
\* results["pages"] returned, opened whether the document was opened,
\* rasterized the pages get_pixmap rendered
analyze_page_contrast(d, left_page, right_page, quality) ==
    LET dpi == AnalyzerDpi(quality)
    IN IF left_page > right_page
       THEN [raised |-> "ValueError",
             message |-> "left_page cannot be greater than right_page",
             pages |-> <<>>, opened |-> FALSE, rasterized |-> <<>>]
       ELSE IF OutsideDocument(left_page, right_page, Len(d))
       THEN [raised |-> "IndexError",
             message |-> "Page range is outside document",
             pages |-> <<>>, opened |-> TRUE, rasterized |-> <<>>]
       ELSE LET bad == {p \in left_page..right_page : d[p].corrupt}
                stop == IF bad = {} THEN right_page + 1
                        ELSE CHOOSE p \in bad : \A q \in bad : p <= q
                done == [i \in 1..(stop - left_page) |-> left_page + i - 1]
            IN IF bad # {}
               THEN \* the library fails on page stop
                    [raised |-> "RuntimeError",
                     message |-> "library failure",
                     pages |-> <<>>, opened |-> TRUE, rasterized |-> done]
               ELSE [raised |-> "", message |-> "",
                     pages |-> [i \in 1..Len(done) |-> PageAnalysis(d, done[i], dpi)],
                     opened |-> TRUE, rasterized |-> done]

\* a handler's effect that called the analyzer
AnalysisEffect(result, analyzed) ==
    [raised |-> "", result |-> result, raster |-> <<>>, writes |-> {},
     analyzed |-> analyzed]

\* the summary lines of one page: at most 5 regions shown, the rest counted
PageSummary(page_data) ==
    [page_number |-> page_data.page_number,
     regions     |-> Len(page_data.regions),
     shown       |-> SubSeq(page_data.regions, 1, Min(Len(page_data.regions), 5)),
     more        |-> Max(Len(page_data.regions) - 5, 0)]

\* handle_analyze_contrast
handle_analyze_contrast(d, params) ==
    IF params.shape # "object"
    THEN Escapes
    ELSE IF params.pdf_path = None \/ IsNone(params, "left_page")
                                  \/ IsNone(params, "right_page")
    THEN AnalysisEffect(ErrorResult(
             "Missing required parameters: pdf_path, left_page, right_page"), <<>>)
    ELSE IF ~PathExists(params.pdf_path)
    THEN AnalysisEffect(ErrorResult("PDF file not found"), <<>>)
    ELSE LET quality == Get(params, "quality", 50)
             r == analyze_page_contrast(d, params.left_page, params.right_page, quality)
             a == <<[left_page |-> params.left_page, right_page |-> params.right_page]>>
         IN IF r.raised # ""
            THEN AnalysisEffect(ErrorResult(r.message), a)
            ELSE AnalysisEffect(ContentResult(
                     <<[type |-> "text", left_page |-> params.left_page,
                        right_page |-> params.right_page,
                        summary |-> [i \in 1..Len(r.pages) |-> PageSummary(r.pages[i])]],
                       [type |-> "text", results |-> r.pages]>>), a)

----------------------------------------------------------------------------
(* Report aggregator *)

\* a region fails every one of the four WCAG standards
FailsAll(region) ==
    /\ ~region.wcag_compliance.aa_normal_text
    /\ ~region.wcag_compliance.aa_large_text
    /\ ~region.wcag_compliance.aaa_normal_text
    /\ ~region.wcag_compliance.aaa_large_text

\* a region fails at least one of the four WCAG standards
FailsAny(region) ==
    \/ ~region.wcag_compliance.aa_normal_text
    \/ ~region.wcag_compliance.aa_large_text
    \/ ~region.wcag_compliance.aaa_normal_text
    \/ ~region.wcag_compliance.aaa_large_text

\* the entry of non_compliant_regions for a failing region
NonCompliant(region) ==
    [region_index   |-> region.region_index,
     contrast_ratio |-> region.contrast_ratio,
     wcag_failures  |-> [aa_normal_text  |-> ~region.wcag_compliance.aa_normal_text,
                         aa_large_text   |-> ~region.wcag_compliance.aa_large_text,
                         aaa_normal_text |-> ~region.wcag_compliance.aaa_normal_text,
                         aaa_large_text  |-> ~region.wcag_compliance.aaa_large_text]]

\* the body of "for page_data in results['pages']", from page i on
RECURSIVE AddIssues(_, _, _)
AddIssues(report, pages, i) ==
    IF i > Len(pages) THEN report
    ELSE LET failing == SelectSeq(pages[i].regions, FailsAny)
             non_compliant_regions ==
                 [j \in 1..Len(failing) |-> NonCompliant(failing[j])]
             next ==
                 IF Len(non_compliant_regions) > 0
                 THEN [report EXCEPT
                          !.pages_with_issues = Append(@,
                              [page_number   |-> pages[i].page_number,
                               regions_count |-> Len(non_compliant_regions),
                               regions       |-> non_compliant_regions]),
                          !.non_compliant_regions_count =
                              @ + Len(non_compliant_regions)]
                 ELSE report
         IN AddIssues(next, pages, i + 1)

\* the right page of a pair taken without looking at the document's end
RightPageUnclamped(left_page, total_pages) == left_page + 1

\* the right page of the pair that starts at left_page
RightPage(left_page, total_pages) == Min(left_page + 1, total_pages)

\* the loop leaving at the first pair whose analysis raises
RECURSIVE AnalyzePairsAbortOnFailure(_, _, _, _)
AnalyzePairsAbortOnFailure(d, left_page, quality, acc) ==
    IF left_page > acc.report.total_pages THEN acc
    ELSE LET right_page == RightPage(left_page, acc.report.total_pages)
             counted == [acc.report EXCEPT
                            !.pages_analyzed = @ + (right_page - left_page + 1)]
             r == analyze_page_contrast(d, left_page, right_page, quality)
             pair == [left_page |-> left_page, right_page |-> right_page,
                      failed |-> r.raised # ""]
         IN IF r.raised # ""
            THEN [report |-> counted, analyzed |-> Append(acc.analyzed, pair)]
            ELSE AnalyzePairsAbortOnFailure(d, left_page + 2, quality,
                     [report   |-> AddIssues(counted, r.pages, 1),
                      analyzed |-> Append(acc.analyzed, pair)])

\* the loop "for left_page in range(start_page, total_pages + 1, 2)":
\* acc holds the report and the pairs handed to the analyzer so far
RECURSIVE AnalyzePairs(_, _, _, _)
AnalyzePairs(d, left_page, quality, acc) ==
    IF left_page > acc.report.total_pages THEN acc
    ELSE LET right_page == RightPage(left_page, acc.report.total_pages)
             counted == [acc.report EXCEPT
                            !.pages_analyzed = @ + (right_page - left_page + 1)]
             r == analyze_page_contrast(d, left_page, right_page, quality)
             pair == [left_page |-> left_page, right_page |-> right_page,
                      failed |-> r.raised # ""]
         IN AnalyzePairs(d, left_page + 2, quality,
                [report   |-> IF r.raised # "" THEN counted
                              ELSE AddIssues(counted, r.pages, 1),
                 analyzed |-> Append(acc.analyzed, pair)])

\* inserting an entry after the entries whose page number is not larger
RECURSIVE InsertByPage(_, _)
InsertByPage(sorted, e) ==
    IF sorted = <<>> THEN <<e>>
    ELSE IF sorted[Len(sorted)].page_number <= e.page_number
    THEN Append(sorted, e)
    ELSE Append(InsertByPage(SubSeq(sorted, 1, Len(sorted) - 1), e),
                sorted[Len(sorted)])

\* pages_with_issues.sort(key=page_number): a stable sort
RECURSIVE SortByPage(_)
SortByPage(entries) ==
    IF entries = <<>> THEN <<>>
    ELSE InsertByPage(SortByPage(SubSeq(entries, 1, Len(entries) - 1)),
                      entries[Len(entries)])

\* handle_get_wcag_report
handle_get_wcag_report(d, params) ==
    IF params.shape # "object"
    THEN Escapes
    ELSE IF params.pdf_path = None
    THEN AnalysisEffect(ErrorResult("Missing required parameter: pdf_path"), <<>>)
    ELSE IF ~PathExists(params.pdf_path)
    THEN AnalysisEffect(ErrorResult("PDF file not found"), <<>>)
    ELSE LET start_page == Get(params, "start_page", 1)
             quality    == Get(params, "quality", 50)
             report == [total_pages |-> Len(d),
                        start_page  |-> start_page,
                        pages_analyzed |-> 0,
                        non_compliant_regions_count |-> 0,
                        pages_with_issues |-> <<>>]
             acc == AnalyzePairs(d, start_page, quality,
                                 [report |-> report, analyzed |-> <<>>])
             sorted == [acc.report EXCEPT !.pages_with_issues = SortByPage(@)]
         IN AnalysisEffect(ContentResult(<<[type |-> "text", report |-> sorted]>>),
                           acc.analyzed)

----------------------------------------------------------------------------
(* Tool dispatcher *)

IntKeys == {"left_page", "right_page", "border_width", "quality", "start_page"}

\* an arguments object; absent names the integer keys it does not carry,
\* pdf_path and output_path are None when it does not carry them
Args(pdf, left, right, border, quality, output, start, absent) ==
    [shape |-> "object", pdf_path |-> pdf, left_page |-> left,
     right_page |-> right, border_width |-> border,
     quality |-> quality, output_path |-> output,
     start_page |-> start, absent |-> absent]

\* the arguments object {}
EmptyArgs == Args(None, 0, 0, 0, 0, None, 0, IntKeys)

\* arguments that are null or of another type than object
NotAnObject == [shape |-> "other"]

\* "arguments" missing from params
AbsentArgs == [shape |-> "absent"]

\* the else branch of handle_call_tool
UnknownTool(d, tool_name, tool_params) ==
    Effect(ErrorResult("Unknown tool: " \o tool_name), <<>>, {})

\* handle_call_tool
handle_call_tool(d, params) ==
    IF params.shape # "object"
    THEN Escapes
    ELSE LET tool_name   == params.name
             tool_params == IF params.arguments.shape = "absent"
                            THEN EmptyArgs ELSE params.arguments
         IN CASE tool_name = "view_spread"      -> handle_view_spread(d, tool_params)
              [] tool_name = "save_spread"      -> handle_save_spread(d, tool_params)
              [] tool_name = "analyze_contrast" -> handle_analyze_contrast(d, tool_params)
              [] tool_name = "get_wcag_report"  -> handle_get_wcag_report(d, tool_params)
              [] tool_name = "get_spread"       -> handle_view_spread(d, tool_params)
              [] OTHER                          -> UnknownTool(d, tool_name, tool_params)

\* handle_initialize
handle_initialize ==
    Effect([error |-> None,
            content |-> <<[protocolVersion |-> "2024-11-05",
                           name |-> "pdf-spread-viewer", version |-> "1.0.0"]>>],
           <<>>, {})

\* handle_list_tools
handle_list_tools ==
    Effect([error |-> None,
            content |-> <<[tools |-> <<"view_spread", "save_spread",
                                       "analyze_contrast", "get_wcag_report">>]>>],
           <<>>, {})

----------------------------------------------------------------------------
(* Request loop *)

Runs == {1, 2}

\* request_id before main's first assignment to it
Unbound == "unbound"

\* a response line with a result
Response(src, id, result) ==
    [src |-> src, id |-> id, kind |-> "result", code |-> 0, result |-> result]

\* a response line with a JSON-RPC error object
ErrorResponse(src, id, code) ==
    [src |-> src, id |-> id, kind |-> "error", code |-> code,
     result |-> ErrorResult(None)]

\* what one iteration of main's loop does
Step(rid, written, crashed, writes) ==
    [request_id |-> rid, written |-> written, crashed |-> crashed,
     writes |-> writes]

\* an except clause that answers with id 0 whatever request_id holds
ExceptClauseZeroId(rid, code, src) ==
    IF rid = Unbound
    THEN Step(rid, <<>>, TRUE, {})
    ELSE Step(rid, <<ErrorResponse(src, "0", code)>>, FALSE, {})

\* an except clause of main: the id answered is request_id, or 0 when it
\* is None
ExceptClause(rid, code, src) ==
    IF rid = Unbound
    THEN \* reading request_id raises UnboundLocalError inside the clause
         Step(rid, <<>>, TRUE, {})
    ELSE Step(rid, <<ErrorResponse(src, IF rid # None THEN rid ELSE "0", code)>>,
              FALSE, {})

\* the "Send response" block
SendResponse(src, rid, e) ==
    IF rid # None
    THEN Step(rid, <<Response(src, rid, e.result)>>, FALSE, e.writes)
    ELSE Step(rid, <<>>, FALSE, e.writes)

\* the params object {}
EmptyParams == [shape |-> "object", name |-> None, arguments |-> AbsentArgs]

\* one iteration of main's loop on `line`, the src-th line read, with
\* request_id holding rid when the line is read
main_iteration(rid, line, d, src) ==
    IF line.kind = "garbage"
    THEN \* json.loads raises JSONDecodeError
         ExceptClause(rid, -32700, src)
    ELSE IF line.kind = "nonobject"
    THEN \* request.get raises AttributeError
         ExceptClause(rid, -32603, src)
    ELSE LET params == IF line.params.shape = "absent" THEN EmptyParams
                       ELSE line.params
             e == CASE line.method = "initialize" -> handle_initialize
                    [] line.method = "tools/list" -> handle_list_tools
                    [] line.method = "tools/call" -> handle_call_tool(d, params)
                    [] OTHER -> Effect(ErrorResult("Unknown method: " \o line.method),
                                       <<>>, {})
         IN IF e.raised # ""
            THEN ExceptClause(line.id, -32603, src)
            ELSE SendResponse(src, line.id, e)

----------------------------------------------------------------------------
(* Inputs *)

\* the sequences over S of length 1..n
SeqsUpTo(S, n) == UNION {[1..k -> S] : k \in 1..n}

\* documents for the spread tools: 1..MaxPages pages of differing sizes
SpreadDocs ==
    {[p \in 1..n |-> Page(1 + (p % MaxDim), 1 + ((p + 1) % MaxDim), <<>>, FALSE)] :
        n \in 1..MaxPages}

\* two-page documents of every size, for the compositor alone
ComposeDocs ==
    {<<Page(w1, h1, <<>>, FALSE), Page(w2, h2, <<>>, FALSE)>> :
        w1 \in 1..MaxDim, h1 \in 1..MaxDim, w2 \in 1..MaxDim, h2 \in 1..MaxDim}

\* pages for the analyzer: no text; one compliant span; a skipped span and
\* spans around the thresholds; a page the library fails on
AnalyzerPages ==
    {Page(1, 1, <<>>, FALSE),
     Page(1, 1, <<Span(FALSE, 700)>>, FALSE),
     Page(1, 1, <<Span(TRUE, 100), Span(FALSE, 449), Span(FALSE, 700),
                  Span(FALSE, 299)>>, FALSE),
     Page(1, 1, <<Span(FALSE, 450)>>, TRUE)}

AnalyzerDocs == SeqsUpTo(AnalyzerPages, MaxPages)

\* one-page documents with one span of every ratio tried
RatioDocs ==
    {<<Page(1, 1, <<Span(FALSE, r)>>, FALSE)>> : r \in RatioFloor..MaxRatio}

PageArgs == 0..(MaxPages + 1)

\* arguments of view_spread / save_spread: every page range with a border
\* width and a quality inside and outside their documented ranges, with
\* the defaults, and with a required argument missing
SpreadParams ==
    {Args(ExistingPdf, l, r, bq[1], bq[2], "out.png", 0, {"start_page"}) :
        l \in PageArgs, r \in PageArgs,
        bq \in {<<2, 50>>, <<-1, 50>>, <<0, 50>>, <<2, 0>>, <<2, 101>>}}
    \cup {Args(ExistingPdf, l, r, 0, 0, "out.png", 0,
               {"border_width", "quality", "start_page"}) :
             l \in PageArgs, r \in PageArgs}
    \cup {Args(MissingPdf, 1, 2, 2, 50, "out.png", 0, {"start_page"}),
          Args(None, 1, 2, 2, 50, "out.png", 0, {"start_page"}),
          Args(ExistingPdf, 0, 2, 2, 50, "out.png", 0, {"left_page", "start_page"}),
          Args(ExistingPdf, 1, 2, 2, 50, None, 0, {"start_page"}),
          NotAnObject}

\* the document served to the request loop: page 3 makes the library fail
LoopDoc ==
    <<Page(2, 3, <<Span(FALSE, 450)>>, FALSE),
      Page(3, 2, <<Span(FALSE, 700), Span(TRUE, 100)>>, FALSE),
      Page(2, 2, <<>>, TRUE)>>

Line(kind, id, method, params) ==
    [kind |-> kind, id |-> id, method |-> method, params |-> params]

\* a line that is not JSON
Garbage == Line("garbage", None, None, [shape |-> "absent"])

\* a line that is JSON but not an object, such as [1]
NonObject == Line("nonobject", None, None, [shape |-> "absent"])

\* {"id": id, "method": method}
Request(id, method) == Line("object", id, method, [shape |-> "absent"])

\* {"id": id, "method": "tools/call", "params": {"name": .., "arguments": ..}}
ToolCall(id, name, arguments) ==
    Line("object", id, "tools/call",
         [shape |-> "object", name |-> name, arguments |-> arguments])

GoodSpread == Args(ExistingPdf, 1, 2, 0, 0, None, 0,
                   {"border_width", "quality", "start_page"})

GoodSave == Args(ExistingPdf, 1, 2, 0, 0, "out.png", 0,
                 {"border_width", "quality", "start_page"})

GoodReport == Args(ExistingPdf, 0, 0, 0, 0, None, 0, IntKeys)

\* the lines fed to two runs that are compared
PairLines ==
    {Garbage, NonObject,
     Request("1", "initialize"), Request("2", "tools/list"),
     Request(None, "initialize"),
     ToolCall("1", "view_spread", GoodSpread),
     ToolCall(None, "save_spread", NotAnObject),
     ToolCall("2", "bogus", AbsentArgs)}

\* the lines fed to the request loop
LoopLines ==
    PairLines \cup
    {Request("1", "bogus/method"),
     Line("object", "1", "tools/call", [shape |-> "other"]),
     Line("object", None, "tools/call", [shape |-> "other"]),
     Request("1", "tools/call"),
     ToolCall(None, "view_spread", GoodSpread),
     ToolCall("1", "view_spread", NotAnObject),
     ToolCall("1", "save_spread", NotAnObject),
     ToolCall("2", "save_spread", GoodSave),
     ToolCall("1", "save_spread",
              Args(MissingPdf, 1, 2, 0, 0, "out.png", 0,
                   {"border_width", "quality", "start_page"})),
     ToolCall("1", "analyze_contrast", GoodSpread),
     ToolCall(None, "analyze_contrast", NotAnObject),
     ToolCall("2", "get_wcag_report", GoodReport),
     ToolCall("1", "get_wcag_report", AbsentArgs),
     ToolCall("1", "get_spread", GoodSpread)}

----------------------------------------------------------------------------
(* Actions *)

NoCall == [op |-> "none"]

NoOutcome == Effect(ErrorResult(None), <<>>, {})

\* the state in which nothing has been called and no line read
Start ==
    /\ files = {}
    /\ call = NoCall
    /\ outcome = NoOutcome
    /\ pos = [r \in Runs |-> 0]
    /\ request_id = [r \in Runs |-> Unbound]
    /\ out = [r \in Runs |-> <<>>]
    /\ status = [r \in Runs |-> "running"]
    /\ input = [r \in Runs |-> <<>>]

\* a tools call of view_spread
ViewSpread ==
    \E params \in SpreadParams :
        LET e == handle_view_spread(doc, params)
        IN /\ call' = [op |-> "view_spread", params |-> params]
           /\ outcome' = e
           /\ files' = WriteFiles(files, e.writes)
           /\ UNCHANGED <<doc, loopVars>>

\* a tools call of save_spread
SaveSpread ==
    \E params \in SpreadParams :
        LET e == handle_save_spread(doc, params)
        IN /\ call' = [op |-> "save_spread", params |-> params]
           /\ outcome' = e
           /\ files' = WriteFiles(files, e.writes)
           /\ UNCHANGED <<doc, loopVars>>

\* a call of create_spread_image on the pages of the document
Compose ==
    \E l \in 1..2, r \in 1..2, b \in 0..MaxBorder :
        /\ call' = [op |-> "create_spread_image", left_page |-> l,
                    right_page |-> r, border_width |-> b, quality |-> 50]
        /\ outcome' = create_spread_image(doc, l, r, b, 50)
        /\ UNCHANGED <<doc, files, loopVars>>

\* a call of analyze_page_contrast
AnalyzePages ==
    \E l \in PageArgs, r \in PageArgs :
        /\ call' = [op |-> "analyze_page_contrast", left_page |-> l,
                    right_page |-> r, quality |-> 50]
        /\ outcome' = analyze_page_contrast(doc, l, r, 50)
        /\ UNCHANGED <<doc, files, loopVars>>

\* a tools call of get_wcag_report
GetWcagReport ==
    \E sp \in -1..(MaxPages + 1), absent \in {IntKeys, IntKeys \ {"start_page"}} :
        LET params == Args(ExistingPdf, 0, 0, 0, 0, None,
                           IF "start_page" \in absent THEN 0 ELSE sp, absent)
        IN /\ call' = [op |-> "get_wcag_report", params |-> params]
           /\ outcome' = handle_get_wcag_report(doc, params)
           /\ UNCHANGED <<doc, files, loopVars>>

\* run r of main reads `line` and handles it
ReadLine(r, line) ==
    /\ status[r] = "running"
    /\ LET st == main_iteration(request_id[r], line, doc, pos[r] + 1)
       IN /\ pos' = [pos EXCEPT ![r] = @ + 1]
          /\ input' = [input EXCEPT ![r] = Append(@, line)]
          /\ request_id' = [request_id EXCEPT ![r] = st.request_id]
          /\ out' = [out EXCEPT ![r] = @ \o st.written]
          /\ status' = [status EXCEPT ![r] = IF st.crashed THEN "crashed" ELSE @]
          /\ files' = WriteFiles(files, st.writes)
    /\ UNCHANGED <<doc, callVars>>

\* main reads a line from stdin
ReadRequest ==
    \E line \in LoopLines : pos[1] < MaxLines /\ ReadLine(1, line)

\* stdin is at its end: main returns
EndOfInput ==
    /\ status[1] = "running"
    /\ status' = [status EXCEPT ![1] = "eof"]
    /\ UNCHANGED <<doc, files, callVars, pos, request_id, out, input>>

\* one of two runs of main, on the same file system, reads a line
PairRead ==
    \E r \in Runs, line \in PairLines : pos[r] < MaxPairLines /\ ReadLine(r, line)

----------------------------------------------------------------------------
(* Specifications *)

\* the request loop
InitLoop == doc = LoopDoc /\ Start

NextLoop == ReadRequest \/ EndOfInput

SpecLoop == InitLoop /\ [][NextLoop]_vars

\* two runs of the request loop
NextPair == PairRead

SpecPair == InitLoop /\ [][NextPair]_vars

\* the spread tools
InitSpread == doc \in SpreadDocs /\ Start

NextSpread == ViewSpread \/ SaveSpread

SpecSpread == InitSpread /\ [][NextSpread]_vars

\* the compositor on two pages of every size
InitCompose == doc \in ComposeDocs /\ Start

NextCompose == Compose

SpecCompose == InitCompose /\ [][NextCompose]_vars

\* the analyzer and the report
InitAnalyze == doc \in AnalyzerDocs /\ Start

NextAnalyze == AnalyzePages \/ GetWcagReport

SpecAnalyze == InitAnalyze /\ [][NextAnalyze]_vars

\* the analyzer on one span of every ratio
InitFlags == doc \in RatioDocs /\ Start

NextFlags == AnalyzePages

SpecFlags == InitFlags /\ [][NextFlags]_vars

\* every operation on the document of the request loop
Init == InitLoop

Next == ReadRequest \/ EndOfInput

Spec == SpecLoop

----------------------------------------------------------------------------
(* Properties of the request loop (SpecLoop, SpecPair) *)

\* the response lines written for the k-th line read by run r
ResponsesFor(r, k) == SelectSeq(out[r], LAMBDA m : m.src = k)

\* the k-th line read is a request carrying an id
HasId(line) == line.kind = "object" /\ line.id # None

\* the k-th line read is a notification
IsNotification(line) == line.kind = "object" /\ line.id = None

\* C1: every line read that is a JSON object with a non-null id has exactly
\* one response line, carrying that id; the responses are written in the
\* order of their requests, and none is written for a line not yet read
\* (the response to request k is on the output before request k+1 is read).
C1_AnsweredOnceInOrder ==
    /\ \A k \in 1..pos[1] :
           HasId(input[1][k]) =>
               /\ Len(ResponsesFor(1, k)) = 1
               /\ ResponsesFor(1, k)[1].id = input[1][k].id
    /\ \A i \in 1..Len(out[1]) : out[1][i].src <= pos[1]
    /\ \A i, j \in 1..Len(out[1]) : i < j => out[1][i].src < out[1][j].src

\* C1 witness: a notification, then a request whose handler raised, then a
\* request that succeeded: two responses, with the ids 1 and 2, in order
C1_Witness ==
    /\ pos[1] = 3
    /\ IsNotification(input[1][1])
    /\ HasId(input[1][2]) /\ input[1][2].id = "1"
    /\ HasId(input[1][3]) /\ input[1][3].id = "2"
    /\ Len(out[1]) = 2
    /\ out[1][1].src = 2 /\ out[1][1].id = "1" /\ out[1][1].kind = "error"
    /\ out[1][2].src = 3 /\ out[1][2].id = "2" /\ out[1][2].kind = "result"

\* C2: a notification (a request without an id) never has a response line,
\* whatever its method and params and whether handling it raises.
C2_NotificationsSilent ==
    \A k \in 1..pos[1] :
        IsNotification(input[1][k]) => Len(ResponsesFor(1, k)) = 0

\* C3: a line that is not JSON has exactly one response line, an error with
\* code -32700, wherever it stands in the input, and the loop goes on.
C3_ParseErrorAnswered ==
    \A k \in 1..pos[1] :
        input[1][k].kind = "garbage" =>
            /\ status[1] # "crashed"
            /\ Len(ResponsesFor(1, k)) = 1
            /\ ResponsesFor(1, k)[1].kind = "error"
            /\ ResponsesFor(1, k)[1].code = -32700

\* C4: no line stops the loop: main never ends on an exception, every line
\* with an id whose handling failed is answered with {error: message} or a
\* JSON-RPC error, and an unknown tool name is answered with the result
\* {error: "Unknown tool: <name>"}.
C4_NoRequestStopsLoop ==
    /\ status[1] # "crashed"
    /\ \A k \in 1..pos[1] :
           LET line == input[1][k]
           IN /\ line.kind = "nonobject" => Len(ResponsesFor(1, k)) = 1
              /\ (/\ HasId(line)
                  /\ line.method = "tools/call"
                  /\ line.params.shape = "object"
                  /\ line.params.name = "bogus")
                 => /\ Len(ResponsesFor(1, k)) = 1
                    /\ ResponsesFor(1, k)[1].kind = "result"
                    /\ ResponsesFor(1, k)[1].result.error = "Unknown tool: bogus"

\* what run r wrote, and whether it went on, for the last line it read
LastOutput(r) ==
    [written |-> [i \in 1..Len(ResponsesFor(r, pos[r])) |->
                     [id     |-> ResponsesFor(r, pos[r])[i].id,
                      kind   |-> ResponsesFor(r, pos[r])[i].kind,
                      code   |-> ResponsesFor(r, pos[r])[i].code,
                      result |-> ResponsesFor(r, pos[r])[i].result]],
     crashed |-> status[r] = "crashed"]

\* C5: the output for a line is a function of that line alone: two runs on
\* the same file system whose last line read is the same wrote the same for
\* it, whatever they read before.
C5_Stateless ==
    \A r1, r2 \in Runs :
        (/\ pos[r1] >= 1 /\ pos[r2] >= 1
         /\ input[r1][pos[r1]] = input[r2][pos[r2]])
        => LastOutput(r1) = LastOutput(r2)

----------------------------------------------------------------------------
(* Properties of the spread tools (SpecCompose, SpecSpread) *)

\* C6: for all sizes of the two images and every border_width >= 0 the
\* canvas is leftWidth + rightWidth + 3*border_width wide and
\* max(leftHeight, rightHeight) + 2*border_width high, the left image is
\* pasted at (border_width, border_width) and the right image at
\* (2*border_width + leftWidth, border_width); the images do not overlap
\* and lie inside the canvas.
C6_CanvasGeometry ==
    (call.op = "create_spread_image" /\ call.left_page = 1 /\ call.right_page = 2)
    => /\ outcome.raised = ""
       /\ LET b   == call.border_width
              img == outcome.image[1]
              lw  == doc[1].width
              lh  == doc[1].height
              rw  == doc[2].width
              rh  == doc[2].height
          IN /\ img.left_img.page = 1 /\ img.right_img.page = 2
             /\ img.canvas_width = lw + rw + 3 * b
             /\ img.canvas_height = (IF lh >= rh THEN lh ELSE rh) + 2 * b
             /\ img.left_at = <<b, b>>
             /\ img.right_at = <<2 * b + lw, b>>
             /\ img.left_at[1] + lw <= img.right_at[1]
             /\ img.left_at[1] >= 0 /\ img.left_at[2] >= 0
             /\ img.right_at[1] + rw <= img.canvas_width
             /\ img.left_at[2] + lh <= img.canvas_height
             /\ img.right_at[2] + rh <= img.canvas_height

\* C6 witness: images of different heights composed with a border of 2
C6_Witness ==
    /\ call.op = "create_spread_image" /\ call.left_page = 1 /\ call.right_page = 2
    /\ call.border_width = 2
    /\ doc[1].height < doc[2].height
    /\ outcome.raised = ""
    /\ outcome.image[1].canvas_width = doc[1].width + doc[2].width + 6

\* the last call was view_spread or save_spread with an arguments object
\* naming both pages
SpreadCall ==
    /\ call.op \in {"view_spread", "save_spread"}
    /\ call.params.shape = "object"
    /\ ~IsNone(call.params, "left_page")
    /\ ~IsNone(call.params, "right_page")

\* the last call ended in an error, returned no image and wrote no file
NoImageProduced ==
    /\ outcome.result.error # None
    /\ \A i \in 1..Len(outcome.result.content) :
           outcome.result.content[i].type # "image"
    /\ outcome.writes = {}

\* C7: on an N-page document every view_spread / save_spread request with
\* left_page >= 1 and right_page > N ends in an error and produces no
\* image: no image content, no file written.
C7_BeyondLastPageFails ==
    (/\ SpreadCall
     /\ call.params.left_page >= 1
     /\ call.params.right_page > Len(doc))
    => NoImageProduced

\* C8: a spread request with left_page < 1, right_page < left_page,
\* border_width < 0 or quality outside 1..100 is rejected before any
\* rasterization, without an image or a file.
C8_ValidatedBeforeUse ==
    (/\ SpreadCall
     /\ \/ call.params.left_page < 1
        \/ call.params.right_page < call.params.left_page
        \/ Get(call.params, "border_width", 2) < 0
        \/ Get(call.params, "quality", 50) \notin 1..100)
    => (outcome.raster = <<>> /\ NoImageProduced)

\* the images the last call returned or wrote
ImagesProduced ==
    {outcome.result.content[i].data :
        i \in {j \in 1..Len(outcome.result.content) :
                  outcome.result.content[j].type = "image"}}
    \cup {w.data : w \in outcome.writes}

\* C14: whenever view_spread or save_spread succeeds for (left_page,
\* right_page), the left image of the spread is the rasterization of page
\* left_page and the right image that of page right_page, also when
\* right_page > left_page + 1.
C14_SpreadShowsRequestedPages ==
    (SpreadCall /\ outcome.raised = "" /\ outcome.result.error = None)
    => /\ ImagesProduced # {}
       /\ \A img \in ImagesProduced :
              /\ img.left_img.page = call.params.left_page
              /\ img.right_img.page = call.params.right_page

----------------------------------------------------------------------------
(* Properties of the analyzer (SpecAnalyze, SpecFlags) *)

\* C9: analyze_page_contrast on an N-page document raises the invalid-range
\* error when left_page > right_page, before the document is opened;
\* otherwise the out-of-bounds error when left_page < 1 or right_page > N;
\* in both cases nothing is rasterized and nothing returned.  When
\* 1 <= left_page <= right_page <= N it raises neither, it returns unless
\* the library fails on a page of the range, and what it returns is one
\* PageAnalysis per page of the range, in ascending page order.
C9_RangeChecks ==
    call.op = "analyze_page_contrast" =>
        LET l == call.left_page
            r == call.right_page
            n == Len(doc)
        IN /\ l > r =>
                  /\ outcome.raised = "ValueError"
                  /\ ~outcome.opened
                  /\ outcome.rasterized = <<>> /\ outcome.pages = <<>>
           /\ (l <= r /\ (l < 1 \/ r > n)) =>
                  /\ outcome.raised = "IndexError"
                  /\ outcome.rasterized = <<>> /\ outcome.pages = <<>>
           /\ (1 <= l /\ l <= r /\ r <= n) =>
                  /\ outcome.raised \in {"", "RuntimeError"}
                  /\ outcome.raised = "" <=> \A p \in l..r : ~doc[p].corrupt
                  /\ outcome.raised = "" =>
                         /\ Len(outcome.pages) = r - l + 1
                         /\ \A i \in 1..(r - l + 1) :
                                outcome.pages[i].page_number = l + i - 1

\* C9 witness: the whole of a document of at least two pages analyzed
C9_Witness ==
    /\ call.op = "analyze_page_contrast"
    /\ call.left_page = 1 /\ call.right_page = Len(doc) /\ Len(doc) >= 2
    /\ outcome.raised = ""
    /\ Len(outcome.pages) = Len(doc)

\* C10: the flags of a region of ratio r (in hundredths) are
\* aa_normal_text = (r >= 4.5), aa_large_text = (r >= 3.0),
\* aaa_normal_text = (r >= 7.0), aaa_large_text = (r >= 4.5); at exactly
\* 4.5 the region passes AA normal and AAA large and fails AAA normal.
C10_Thresholds ==
    (/\ call.op = "analyze_page_contrast"
     /\ call.left_page = 1 /\ call.right_page = 1)
    => /\ outcome.raised = ""
       /\ Len(outcome.pages) = 1 /\ Len(outcome.pages[1].regions) = 1
       /\ LET r == doc[1].spans[1].ratio
              c == outcome.pages[1].regions[1].wcag_compliance
          IN /\ c.aa_normal_text  <=> r >= 450
             /\ c.aa_large_text   <=> r >= 300
             /\ c.aaa_normal_text <=> r >= 700
             /\ c.aaa_large_text  <=> r >= 450
             /\ r = 450 => (c.aa_normal_text /\ c.aaa_large_text
                                              /\ ~c.aaa_normal_text)

\* C10 witness: a region of ratio exactly 4.5 classified
C10_Witness ==
    /\ call.op = "analyze_page_contrast"
    /\ call.left_page = 1 /\ call.right_page = 1
    /\ doc[1].spans[1].ratio = 450
    /\ outcome.raised = ""
    /\ outcome.pages[1].regions[1].wcag_compliance.aa_normal_text
    /\ ~outcome.pages[1].regions[1].wcag_compliance.aaa_normal_text

----------------------------------------------------------------------------
(* Properties of the report (SpecAnalyze) *)

\* the last call was get_wcag_report and it returned a report
ReportCall ==
    /\ call.op = "get_wcag_report"
    /\ outcome.raised = ""
    /\ outcome.result.error = None

\* the report returned by the last call
TheReport == outcome.result.content[1].report

\* start_page as the last call of get_wcag_report read it
StartPage == Get(call.params, "start_page", 1)

\* C11: with 1 <= start_page <= N the analyzer is invoked on the pairs
\* [start_page, start_page+1], [start_page+2, start_page+3], ... in
\* ascending order; the last pair is the singleton [N, N] exactly when
\* N - start_page + 1 is odd; the pairs cover every page of start_page..N
\* exactly once and no other page; pages_analyzed = N - start_page + 1.
C11_PairsPartitionPages ==
    (call.op = "get_wcag_report" /\ 1 <= StartPage /\ StartPage <= Len(doc))
    => /\ ReportCall
       /\ LET n == Len(doc)
              a == outcome.analyzed
              k == Len(a)
          IN /\ k = (n - StartPage + 2) \div 2
             /\ \A i \in 1..k :
                    /\ a[i].left_page = StartPage + 2 * (i - 1)
                    /\ a[i].right_page =
                           (IF i = k /\ (n - StartPage + 1) % 2 = 1
                            THEN a[i].left_page ELSE a[i].left_page + 1)
             /\ (a[k].left_page = n /\ a[k].right_page = n)
                    <=> (n - StartPage + 1) % 2 = 1
             /\ \A i \in 1..k : StartPage <= a[i].left_page /\ a[i].right_page <= n
             /\ \A q \in StartPage..n :
                    Cardinality({i \in 1..k :
                        a[i].left_page <= q /\ q <= a[i].right_page}) = 1
             /\ TheReport.pages_analyzed = n - StartPage + 1
             /\ TheReport.total_pages = n

\* C11 witness: a report from page 1 of a three-page document, on the pairs
\* (1, 2) and (3, 3)
C11_Witness ==
    /\ ReportCall
    /\ StartPage = 1 /\ Len(doc) = 3
    /\ Len(outcome.analyzed) = 2
    /\ outcome.analyzed[1].left_page = 1 /\ outcome.analyzed[1].right_page = 2
    /\ outcome.analyzed[2].left_page = 3 /\ outcome.analyzed[2].right_page = 3
    /\ TheReport.pages_analyzed = 3

\* the sum of regions_count over the entries from the i-th on
RECURSIVE SumRegionsCount(_, _)
SumRegionsCount(entries, i) ==
    IF i > Len(entries) THEN 0
    ELSE entries[i].regions_count + SumRegionsCount(entries, i + 1)

\* the pages the analyzer analyzed for the report: those of the pairs whose
\* analysis did not fail
AnalyzedPages ==
    {q \in 1..Len(doc) :
        \E i \in 1..Len(outcome.analyzed) :
            /\ ~outcome.analyzed[i].failed
            /\ outcome.analyzed[i].left_page <= q
            /\ q <= outcome.analyzed[i].right_page}

\* the region_index of the regions of page q with a ratio under one of the
\* four thresholds 4.5, 3.0, 7.0, 4.5 (ratios in hundredths)
FailingIndexes(q) ==
    LET regions == Regions(doc[q].spans)
    IN {j \in 1..Len(regions) :
           \/ regions[j].contrast_ratio < 450
           \/ regions[j].contrast_ratio < 300
           \/ regions[j].contrast_ratio < 700}

\* C12: in every report, pages_with_issues is in strictly ascending
\* page_number order; every listed page has regions_count = the number of
\* its listed regions >= 1; every listed region fails at least one of the
\* four thresholds, and every analyzed region that fails one is listed (on
\* its page, once); non_compliant_regions_count is the sum of regions_count
\* over pages_with_issues.
C12_ReportWellFormed ==
    ReportCall =>
        LET e == TheReport.pages_with_issues
        IN /\ \A i, j \in 1..Len(e) : i < j => e[i].page_number < e[j].page_number
           /\ \A i \in 1..Len(e) :
                  /\ e[i].regions_count = Len(e[i].regions)
                  /\ e[i].regions_count >= 1
                  /\ e[i].page_number \in AnalyzedPages
                  /\ \A j \in 1..Len(e[i].regions) :
                         LET f == e[i].regions[j].wcag_failures
                         IN /\ \/ f.aa_normal_text \/ f.aa_large_text
                               \/ f.aaa_normal_text \/ f.aaa_large_text
                            /\ e[i].regions[j].region_index
                                   \in FailingIndexes(e[i].page_number)
                  /\ \A j1, j2 \in 1..Len(e[i].regions) :
                         j1 < j2 => e[i].regions[j1].region_index
                                        # e[i].regions[j2].region_index
           /\ \A q \in AnalyzedPages : \A x \in FailingIndexes(q) :
                  \E i \in 1..Len(e) :
                      /\ e[i].page_number = q
                      /\ \E j \in 1..Len(e[i].regions) :
                             e[i].regions[j].region_index = x
           /\ TheReport.non_compliant_regions_count = SumRegionsCount(e, 1)

\* C12 witness: a report in which the analysis of one pair failed and which
\* lists two pages, one of them with two regions
C12_Witness ==
    /\ ReportCall
    /\ \E i \in 1..Len(outcome.analyzed) : outcome.analyzed[i].failed
    /\ Len(TheReport.pages_with_issues) = 2
    /\ TheReport.pages_with_issues[1].regions_count = 2
    /\ TheReport.non_compliant_regions_count = 4

\* the document with every page readable by the library
Repaired(d) == [i \in 1..Len(d) |-> [d[i] EXCEPT !.corrupt = FALSE]]

\* the entries of a report's pages_with_issues for the pages of a pair
EntriesOfPair(entries, pair) ==
    LET InPair(e) == /\ pair.left_page <= e.page_number
                     /\ e.page_number <= pair.right_page
    IN SelectSeq(entries, InPair)

\* the entries of a report's pages_with_issues for the pages of the pairs
\* of `analyzed` whose analysis did not fail
EntriesOfAnalyzed(entries, analyzed) ==
    LET InGoodPair(e) ==
            \E i \in 1..Len(analyzed) :
                /\ ~analyzed[i].failed
                /\ analyzed[i].left_page <= e.page_number
                /\ e.page_number <= analyzed[i].right_page
    IN SelectSeq(entries, InGoodPair)

\* C13: when the analysis of one or more pairs fails, get_wcag_report still
\* returns a report and not {error}; a failing pair contributes no entry to
\* pages_with_issues and nothing to non_compliant_regions_count; every later
\* pair is still analysed; and a pair that does not fail contributes exactly
\* the entries it contributes when no page of the document is unreadable.
C13_PartialFailureTolerated ==
    (/\ call.op = "get_wcag_report"
     /\ call.params.shape = "object"
     /\ call.params.pdf_path # None
     /\ PathExists(call.params.pdf_path))
    => /\ ReportCall
       /\ LET clean == handle_get_wcag_report(Repaired(doc), call.params)
              ce == clean.result.content[1].report.pages_with_issues
              e == TheReport.pages_with_issues
              a == outcome.analyzed
          IN /\ Len(a) = Len(clean.analyzed)
             /\ \A i \in 1..Len(a) :
                    /\ a[i].left_page = clean.analyzed[i].left_page
                    /\ a[i].right_page = clean.analyzed[i].right_page
                    /\ clean.analyzed[i].failed => a[i].failed
                    /\ a[i].failed => EntriesOfPair(e, a[i]) = <<>>
                    /\ ~a[i].failed =>
                           EntriesOfPair(e, a[i]) = EntriesOfPair(ce, a[i])
             /\ TheReport.non_compliant_regions_count
                    = SumRegionsCount(EntriesOfAnalyzed(ce, a), 1)

\* C13 witness: the first pair holds an unreadable page and fails, the last
\* pair is analysed and its page is listed with its two failing regions
C13_Witness ==
    /\ ReportCall
    /\ StartPage = 1
    /\ Len(doc) = 3
    /\ doc[1].corrupt
    /\ Len(outcome.analyzed) = 2
    /\ outcome.analyzed[1].failed
    /\ ~outcome.analyzed[2].failed
    /\ Len(TheReport.pages_with_issues) = 1
    /\ TheReport.pages_with_issues[1].page_number = 3
    /\ TheReport.non_compliant_regions_count = 2

\* C15: for every integer start_page, also below 1 and above total_pages,
\* the report has 0 <= pages_analyzed <= total_pages and every pair handed
\* to the analyzer has 1 <= left_page <= right_page <= total_pages.
C15_PairsInsideDocument ==
    ReportCall =>
        /\ 0 <= TheReport.pages_analyzed
        /\ TheReport.pages_analyzed <= TheReport.total_pages
        /\ \A i \in 1..Len(outcome.analyzed) :
               /\ 1 <= outcome.analyzed[i].left_page
               /\ outcome.analyzed[i].left_page <= outcome.analyzed[i].right_page
               /\ outcome.analyzed[i].right_page <= TheReport.total_pages

====
